---------------------------- MODULE Spec2Model ----------------------------
(***************************************************************************)
(* A model of src/src/blocks/form/form.ts: the form built by buildForm,    *)
(* the conditional visibility engine (enableConditionals, initConditionals,*)
(* toggleConditional), the submission pipeline (enableSubmission,          *)
(* handleSubmit, generatePayload, toggleForm) and the OTP sub-flow         *)
(* (initOtpBehavior): the resend affordance, its timer, the submit         *)
(* listeners; and of the loan slider block of src/unnamed/part_000: its    *)
(* config, its state and the listeners update() registers.                 *)
(*                                                                         *)
(* Strings the code takes apart (option lists, condition strings, values)  *)
(* are sequences of one-character strings, so that split, trim, includes   *)
(* and toClassName are computed and not assumed.                           *)
(*                                                                         *)
(* Events are delivered to the listeners the code registers.  A listener   *)
(* runs whenever its event is dispatched: the only guards of a handler are *)
(* the conditions of its code.  An edit of a control by the user (typing,  *)
(* checking, selecting) needs the control to be enabled.                   *)
(***************************************************************************)
EXTENDS Integers, Sequences, FiniteSets, TLC

VARIABLES
    descs,            \* the FieldList given to buildForm
    children,         \* the child nodes of the form element, in order
    controls,         \* form.elements, in DOM order, with their attributes
    fields,           \* the .form-field wrappers: data-controller, data-condition, aria-hidden
    controllerConfig, \* enableConditionals' Map: sequence of <<controller, <<control index,...>>>>
    action,           \* form.dataset.action
    confirmation,     \* form.dataset.confirmation
    calls,            \* handleSubmit activations suspended at an await: sequence of "fetch" | "text"
    posted,           \* number of fetch() calls issued
    lastPayload,      \* the payload of the last generatePayload
    nSubmits,         \* number of submit events handled
    lastValid,        \* result of the last form.reportValidity(): "none" | "true" | "false"
    focus,            \* index of the control focus() was last called on, 0 if none
    location,         \* window.location.href: "page" | "confirmation"
    errors,           \* number of console.error calls of handleSubmit
    lastEvent,        \* the last handler that ran, with its target
    resendCount,      \* initOtpBehavior: let resendCount
    timerId,          \* initOtpBehavior: let timerId ("undefined" | "interval")
    intervals,        \* number of intervals scheduled by setInterval and not cleared
    timerStarted,     \* initOtpBehavior: let timerStarted
    remaining,        \* startTimer: let remaining
    display,          \* style.display of loader, resendButton, limitMessage
    resendEvents,     \* number of otp:resend events dispatched
    timerStarts,      \* number of times startTimer passed its guard
    hasMobile,        \* whether the form holds input[name="mobile"]
    mobileValue,      \* mobileInput.value
    otpEvent,         \* the last OTP handler that ran
    otpErrorCount,    \* initOtpBehavior: let otpErrorCount
    otpRetry,         \* otpRetry.style.display
    otpOutcome,       \* what the last OTP submit did: "none" | "invalid" | "match" | "mismatch"
    config,           \* loan slider: config after its normalisation (min, max, step, initial)
    amount,           \* loan slider: state.amount
    pan,              \* loan slider: state.pan
    panTouched,       \* loan slider: state.panTouched
    showResult,       \* loan slider: state.showResult
    sliderEvent       \* loan slider: the last listener that ran

formVars == <<descs, children, controls, fields, controllerConfig, action, confirmation, calls,
              posted, lastPayload, nSubmits, lastValid, focus, location, errors, lastEvent>>
otpVars == <<resendCount, timerId, intervals, timerStarted, remaining, display,
             resendEvents, timerStarts, hasMobile, mobileValue, otpEvent,
             otpErrorCount, otpRetry, otpOutcome>>
sliderVars == <<config, amount, pan, panTouched, showResult, sliderEvent>>
vars == <<formVars, otpVars, sliderVars>>

----------------------------------------------------------------------------
(* Bounds of the model                                                     *)

MaxSubmits == 2
MaxClicks == 5

----------------------------------------------------------------------------
(* Strings                                                                 *)

E == <<>>

upperChars ==
    <<"A", "B", "C", "D", "E", "F", "G", "H", "I", "J", "K", "L", "M", "N", "O", "P", "Q", "R", "S", "T", "U", "V", "W", "X", "Y", "Z">>
lowerChars ==
    <<"a", "b", "c", "d", "e", "f", "g", "h", "i", "j", "k", "l", "m", "n", "o", "p", "q", "r", "s", "t", "u", "v", "w", "x", "y", "z">>
digitChars == {"0", "1", "2", "3", "4", "5", "6", "7", "8", "9"}

\* String.prototype.toLowerCase, on the alphabet of the model
ToLowerChar(c) ==
    IF \E i \in 1..Len(upperChars) : upperChars[i] = c
    THEN lowerChars[CHOOSE i \in 1..Len(upperChars) : upperChars[i] = c]
    ELSE c

IsAlnum(c) ==
    \/ c \in digitChars
    \/ \E i \in 1..Len(lowerChars) : lowerChars[i] = c \/ upperChars[i] = c

\* String.prototype.includes
Includes(hay, needle) ==
    \E i \in 0..(Len(hay) - Len(needle)) : SubSeq(hay, i + 1, i + Len(needle)) = needle

\* String.prototype.trim (blanks only)
RECURSIVE TrimLeft(_)
TrimLeft(s) == IF s # E /\ Head(s) = " " THEN TrimLeft(Tail(s)) ELSE s
RECURSIVE TrimRight(_)
TrimRight(s) ==
    IF s # E /\ s[Len(s)] = " " THEN TrimRight(SubSeq(s, 1, Len(s) - 1)) ELSE s
Trim(s) == TrimRight(TrimLeft(s))

\* String.prototype.split(sep): the pieces between the separators
RECURSIVE SplitAcc(_, _, _)
SplitAcc(s, sep, cur) ==
    IF s = E THEN <<cur>>
    ELSE IF Head(s) = sep THEN <<cur>> \o SplitAcc(Tail(s), sep, E)
    ELSE SplitAcc(Tail(s), sep, Append(cur, Head(s)))
Split(s, sep) == SplitAcc(s, sep, E)

\* name.toLowerCase().replace(/[^0-9a-z]/gi, '-')
RECURSIVE DashNonAlnum(_)
DashNonAlnum(s) ==
    IF s = E THEN E
    ELSE <<(IF IsAlnum(Head(s)) THEN ToLowerChar(Head(s)) ELSE "-")>> \o DashNonAlnum(Tail(s))

\* .replace(/-+/g, '-')
RECURSIVE CollapseDashes(_)
CollapseDashes(s) ==
    IF Len(s) < 2 THEN s
    ELSE IF s[1] = "-" /\ s[2] = "-" THEN CollapseDashes(Tail(s))
    ELSE <<Head(s)>> \o CollapseDashes(Tail(s))

\* .replace(/^-|-$/g, '')
StripDashes(s) ==
    LET a == IF s # E /\ Head(s) = "-" THEN Tail(s) ELSE s
    IN  IF a # E /\ a[Len(a)] = "-" THEN SubSeq(a, 1, Len(a) - 1) ELSE a

\* utils/toClassName: lower-casing and whitespace/punctuation collapse
toClassName(s) == StripDashes(CollapseDashes(DashNonAlnum(s)))

IsLowerChar(c) == \E i \in 1..Len(lowerChars) : lowerChars[i] = c
ToUpperChar(c) ==
    IF IsLowerChar(c)
    THEN upperChars[CHOOSE i \in 1..Len(lowerChars) : lowerChars[i] = c]
    ELSE c

\* .replace(/-([a-z])/g, (g) => g[1].toUpperCase())
RECURSIVE CamelDashes(_)
CamelDashes(s) ==
    IF s = E THEN E
    ELSE IF Len(s) >= 2 /\ s[1] = "-" /\ IsLowerChar(s[2])
         THEN <<ToUpperChar(s[2])>> \o CamelDashes(Tail(Tail(s)))
    ELSE <<Head(s)>> \o CamelDashes(Tail(s))

\* utils/toCamelCase: a deterministic id from a field name
toCamelCase(s) == CamelDashes(toClassName(s))

\* generateId(name, option)
generateId(name, option) ==
    IF option # E THEN toCamelCase(name) \o <<"-">> \o toCamelCase(option)
    ELSE toCamelCase(name)

----------------------------------------------------------------------------
(* Field Builder and Form Assembler                                        *)

BoolStr(b) == IF b THEN "true" ELSE "false"

\* a FieldConfig; required is the descriptor's string, "" where the key is absent
Desc(type, field, label, required, default, placeholder, options, conditional) ==
    [type |-> type, field |-> field, label |-> label, required |-> required, default |-> default,
     placeholder |-> placeholder, options |-> options, conditional |-> conditional,
     pattern |-> E]

\* an element of form.elements with the attributes the code reads and writes
Element(tag, type, id, name, value, checked, required, field, options) ==
    [tag |-> tag, type |-> type, id |-> id, name |-> name, value |-> value,
     checked |-> checked, required |-> required, disabled |-> FALSE,
     tabindex |-> "", originalRequired |-> "", ariaInvalid |-> FALSE,
     ariaControls |-> E, ariaControlledby |-> E, ariaChecked |-> "",
     field |-> field, options |-> options, pattern |-> E]

\* a .form-field wrapper; hasController is the presence of data-controller
Wrapper(kind, conditional) ==
    [kind |-> kind,
     hasController |-> conditional # E,
     controller |-> IF conditional # E THEN Split(conditional, "-")[1] ELSE E,
     condition |-> conditional,
     ariaHidden |-> ""]

FieldNameOf(d) == IF d.field # E THEN d.field ELSE <<"f", "i", "e", "l", "d">>

\* buildInput
buildInput(d, f) ==
    [Element("input", IF d.type # "" THEN d.type ELSE "text",
             generateId(FieldNameOf(d), E), generateId(FieldNameOf(d), E),
             d.default, FALSE, d.required = "true", f, <<>>)
        EXCEPT !.pattern = d.pattern]

\* buildTextArea
buildTextArea(d, f) ==
    Element("textarea", "textarea",
            generateId(FieldNameOf(d), E), generateId(FieldNameOf(d), E),
            d.default, FALSE, d.required = "true", f, <<>>)

\* buildOptionInput: every option input of a group takes the descriptor's required
buildOptionInput(d, option, f) ==
    Element("input", IF d.type # "" THEN d.type ELSE "text",
            generateId(FieldNameOf(d), option), generateId(FieldNameOf(d), E),
            option, option = d.default /\ d.default # E, d.required = "true", f, <<>>)

\* options.split(',') with each piece trimmed
OptionList(options) ==
    LET pieces == Split(options, ",")
    IN  [k \in 1..Len(pieces) |-> Trim(pieces[k])]

\* buildOptions: the fieldset and one input per option
buildOptions(d, f) ==
    LET opts == OptionList(d.options)
    IN  <<Element("fieldset", "fieldset", E, E, E, FALSE, FALSE, f, <<>>)>>
        \o [k \in 1..Len(opts) |-> buildOptionInput(d, opts[k], f)]

\* buildSelect: the select with its placeholder option and its literal options
buildSelect(d, f) ==
    LET opts == OptionList(d.options)
        ph == IF d.placeholder # E THEN <<[value |-> E, disabled |-> TRUE]>> ELSE <<>>
        all == ph \o [k \in 1..Len(opts) |-> [value |-> opts[k], disabled |-> FALSE]]
    IN  Element("select", "select-one",
                generateId(FieldNameOf(d), E), generateId(FieldNameOf(d), E),
                all[1].value, FALSE, d.required = "true", f, all)

\* buildToggle: one checkbox, its value the default or 'true'
buildToggle(d, f) ==
    LET input == buildOptionInput([d EXCEPT !.type = "checkbox"],
                                  IF d.default # E THEN d.default ELSE <<"t", "r", "u", "e">>, f)
    IN  [input EXCEPT !.ariaChecked = BoolStr(input.checked)]

\* buildButton
buildButton(d) ==
    Element("button", IF d.type # "" THEN d.type ELSE "button", E, E, E, FALSE, FALSE, 0, <<>>)

\* buildField: the wrappers (none or one) and the listed elements of one descriptor;
\* f is the index the wrapper gets
buildField(d, f) ==
    IF d.type = "hidden" THEN [wrappers |-> <<>>, elements |-> <<buildInput(d, 0)>>]
    ELSE IF d.type \in {"submit", "reset"}
        THEN [wrappers |-> <<>>, elements |-> <<buildButton(d)>>]
    ELSE IF d.type \in {"radio", "checkbox"}
        THEN IF d.options = E THEN [wrappers |-> <<>>, elements |-> <<>>]
             ELSE [wrappers |-> <<Wrapper(d.type, d.conditional)>>,
                   elements |-> buildOptions(d, f)]
    ELSE IF d.type = "toggle"
        THEN [wrappers |-> <<Wrapper(d.type, d.conditional)>>,
              elements |-> <<buildToggle(d, f)>>]
    ELSE IF d.type = "select"
        THEN IF d.options = E THEN [wrappers |-> <<>>, elements |-> <<>>]
             ELSE [wrappers |-> <<Wrapper(d.type, d.conditional)>>,
                   elements |-> <<buildSelect(d, f)>>]
    ELSE [wrappers |-> <<Wrapper(d.type, d.conditional)>>,
          elements |-> <<IF d.type = "textarea" THEN buildTextArea(d, f)
                         ELSE buildInput(d, f)>>]

RECURSIVE AppendFields(_, _)
AppendFields(ds, acc) ==
    IF ds = <<>> THEN acc
    ELSE LET b == buildField(Head(ds), Len(acc.wrappers) + 1)
         IN  AppendFields(Tail(ds), [wrappers |-> acc.wrappers \o b.wrappers,
                                     elements |-> acc.elements \o b.elements])

\* buildForm before enableConditionals: the fields in descriptor order, then the
\* buttons; confirmation descriptors render nothing
buildForm(ds) ==
    LET body == SelectSeq(ds, LAMBDA d : d.type \notin {"submit", "reset", "confirmation"})
        buttons == SelectSeq(ds, LAMBDA d : d.type \in {"submit", "reset"})
    IN  AppendFields(body \o buttons, [wrappers |-> <<>>, elements |-> <<>>])

\* the node buildField returns for a descriptor: a bare input for hidden, a button, a
\* fieldset for an option group, a .form-field div, or an empty div for a group or a
\* select without options
FieldNode(d, k) ==
    [tag |-> IF d.type = "hidden" THEN "input"
             ELSE IF d.type \in {"submit", "reset"} THEN "button"
             ELSE IF d.type \in {"radio", "checkbox"}
                  THEN (IF d.options # E THEN "fieldset" ELSE "div")
             ELSE "div",
     from |-> <<k>>]

\* buildForm's fields.forEach with every field appended where it stands
Assemble_InPlace(ds, k, kids, buttons) ==
    [j \in 1..Len(ds) |-> FieldNode(ds[j], j)]

\* buildForm's fields.forEach from descriptor k on, then the button wrapper: kids are
\* the nodes appended so far, buttons the descriptors set aside
RECURSIVE Assemble(_, _, _, _)
Assemble(ds, k, kids, buttons) ==
    IF k > Len(ds)
    THEN IF Len(buttons) # 0
         THEN Append(kids, [tag |-> "button-wrapper", from |-> buttons])
         ELSE kids
    ELSE IF ds[k].type \in {"submit", "reset"}
         THEN Assemble(ds, k + 1, kids, Append(buttons, k))
    ELSE IF ds[k].type # "confirmation"
         THEN Assemble(ds, k + 1, Append(kids, FieldNode(ds[k], k)), buttons)
    ELSE Assemble(ds, k + 1, kids, buttons)

\* the children of the form buildForm returns; from holds the descriptor indices a
\* child was built from
formChildren(ds) == Assemble(ds, 1, <<>>, <<>>)

----------------------------------------------------------------------------
(* Conditional Visibility Engine                                           *)

\* condition ? condition.includes(toClassName(value)) : false
ConditionMet(condition, value) ==
    IF condition # E THEN Includes(condition, toClassName(value)) ELSE FALSE

\* the Map's entry for a controller name: its index in the sequence, 0 if absent
ConfigIndex(cfg, name) ==
    IF \E k \in 1..Len(cfg) : cfg[k][1] = name
    THEN CHOOSE k \in 1..Len(cfg) : cfg[k][1] = name
    ELSE 0

\* c.querySelector('input, textarea, select'): the first control of a wrapper
FirstControl(ctrls, f) ==
    IF \E i \in 1..Len(ctrls) : ctrls[i].field = f /\ ctrls[i].tag \in {"input", "textarea", "select"}
    THEN CHOOSE i \in 1..Len(ctrls) :
            /\ ctrls[i].field = f /\ ctrls[i].tag \in {"input", "textarea", "select"}
            /\ \A j \in 1..(i - 1) :
                 ~(ctrls[j].field = f /\ ctrls[j].tag \in {"input", "textarea", "select"})
    ELSE 0

\* enableConditionals, the Map: for every [data-controller] wrapper in DOM order,
\* its first control is pushed to the entry of its controller
RECURSIVE BuildConfig(_, _, _, _)
BuildConfig(ctrls, flds, f, cfg) ==
    IF f > Len(flds) THEN cfg
    ELSE LET input == FirstControl(ctrls, f)
             controller == flds[f].controller
             k == ConfigIndex(cfg, controller)
         IN  IF ~flds[f].hasController \/ input = 0 \/ controller = E
             THEN BuildConfig(ctrls, flds, f + 1, cfg)
             ELSE IF k = 0
                  THEN BuildConfig(ctrls, flds, f + 1, Append(cfg, <<controller, <<input>>>>))
                  ELSE BuildConfig(ctrls, flds, f + 1,
                                   [cfg EXCEPT ![k] = <<controller, Append(cfg[k][2], input)>>])

\* Array.prototype.join(sep)
RECURSIVE Join(_, _)
Join(pieces, sep) ==
    IF Len(pieces) = 0 THEN E
    ELSE IF Len(pieces) = 1 THEN pieces[1]
    ELSE pieces[1] \o <<sep>> \o Join(Tail(pieces), sep)

\* existingControls.split(' ').filter((ec) => ec)
ControlsArray(existingControls) ==
    SelectSeq(Split(existingControls, " "), LAMBDA ec : ec # E)

\* the ARIA relationships with aria-controls overwritten by the last id
RECURSIVE LinkAria_Overwrite(_, _, _, _)
LinkAria_Overwrite(ctrls, input, controller, j) ==
    IF j > Len(ctrls) THEN ctrls
    ELSE IF ctrls[j].name # controller THEN LinkAria_Overwrite(ctrls, input, controller, j + 1)
    ELSE LET c1 == [ctrls EXCEPT ![j].ariaControls = ctrls[input].id]
             c2 == [c1 EXCEPT ![input].ariaControlledby = c1[j].id]
         IN  LinkAria_Overwrite(c2, input, controller, j + 1)

\* enableConditionals, the ARIA relationships of one controlled input: every element
\* named as the controller gets the input's id in aria-controls (once), and the
\* input gets the id of the last of them in aria-controlledby
RECURSIVE LinkAria(_, _, _, _)
LinkAria(ctrls, input, controller, j) ==
    IF j > Len(ctrls) THEN ctrls
    ELSE IF ctrls[j].name # controller THEN LinkAria(ctrls, input, controller, j + 1)
    ELSE LET id == ctrls[input].id
             controlsArray == ControlsArray(ctrls[j].ariaControls)
             had == \E k \in 1..Len(controlsArray) : controlsArray[k] = id
             pushed == IF had THEN controlsArray ELSE Append(controlsArray, id)
             c1 == [ctrls EXCEPT ![j].ariaControls = Join(pushed, " ")]
             c2 == [c1 EXCEPT ![input].ariaControlledby = c1[j].id]
         IN  LinkAria(c2, input, controller, j + 1)

RECURSIVE BuildAria(_, _, _)
BuildAria(ctrls, flds, f) ==
    IF f > Len(flds) THEN ctrls
    ELSE LET input == FirstControl(ctrls, f)
             controller == flds[f].controller
         IN  IF ~flds[f].hasController \/ input = 0 \/ controller = E \/ ctrls[input].id = E
             THEN BuildAria(ctrls, flds, f + 1)
             ELSE BuildAria(LinkAria(ctrls, input, controller, 1), flds, f + 1)

\* form.querySelector(`[name="${controller}"]:checked`): index, 0 if none
CheckedOf(ctrls, controller) ==
    IF \E i \in 1..Len(ctrls) : ctrls[i].name = controller /\ ctrls[i].checked
    THEN CHOOSE i \in 1..Len(ctrls) :
            /\ ctrls[i].name = controller /\ ctrls[i].checked
            /\ \A j \in 1..(i - 1) : ~(ctrls[j].name = controller /\ ctrls[j].checked)
    ELSE 0

\* form.querySelector(`select[name="${controller}"]`): index, 0 if none
SelectOf(ctrls, controller) ==
    IF \E i \in 1..Len(ctrls) : ctrls[i].name = controller /\ ctrls[i].tag = "select"
    THEN CHOOSE i \in 1..Len(ctrls) :
            /\ ctrls[i].name = controller /\ ctrls[i].tag = "select"
            /\ \A j \in 1..(i - 1) : ~(ctrls[j].name = controller /\ ctrls[j].tag = "select")
    ELSE 0

\* a controllerValue that prefers the select to the checked control
ControllerValue_SelectFirst(ctrls, controller) ==
    IF SelectOf(ctrls, controller) # 0 THEN ctrls[SelectOf(ctrls, controller)].value
    ELSE IF CheckedOf(ctrls, controller) # 0 THEN ctrls[CheckedOf(ctrls, controller)].value
    ELSE E

\* initConditionals' controllerValue; E stands for null as for '', both falsy
ControllerValue(ctrls, controller) ==
    IF CheckedOf(ctrls, controller) # 0 THEN ctrls[CheckedOf(ctrls, controller)].value
    ELSE IF SelectOf(ctrls, controller) # 0 THEN ctrls[SelectOf(ctrls, controller)].value
    ELSE E

\* initConditionals, one controlled input of a controller whose value resolved
InitResolved(dom, i, value) ==
    LET f == dom.controls[i].field
        conditionMet == ConditionMet(dom.fields[f].condition, value)
        had == dom.controls[i].required
    IN  [fields |-> [dom.fields EXCEPT ![f].ariaHidden = BoolStr(~conditionMet)],
         controls |-> [dom.controls EXCEPT
            ![i].originalRequired = IF had /\ @ = "" THEN "true" ELSE @,
            ![i].required = IF had /\ ~conditionMet THEN FALSE ELSE @,
            ![i].tabindex = IF conditionMet THEN "" ELSE "-1"]]

\* initConditionals, one controlled input of a controller with no value
InitUnresolved(dom, i) ==
    LET f == dom.controls[i].field
        had == dom.controls[i].required
    IN  [fields |-> [dom.fields EXCEPT ![f].ariaHidden = "true"],
         controls |-> [dom.controls EXCEPT
            ![i].originalRequired = IF had /\ @ = "" THEN "true" ELSE @,
            ![i].required = FALSE,
            ![i].tabindex = "-1"]]

RECURSIVE InitInputs(_, _, _, _)
InitInputs(dom, inputs, resolved, value) ==
    IF inputs = <<>> THEN dom
    ELSE InitInputs(IF resolved THEN InitResolved(dom, Head(inputs), value)
                    ELSE InitUnresolved(dom, Head(inputs)),
                    Tail(inputs), resolved, value)

\* initConditionals: every controller of the Map, in insertion order
RECURSIVE initConditionals(_, _)
initConditionals(dom, cfg) ==
    IF cfg = <<>> THEN dom
    ELSE LET controllerValue == ControllerValue(dom.controls, Head(cfg)[1])
         IN  initConditionals(InitInputs(dom, Head(cfg)[2], controllerValue # E, controllerValue),
                              Tail(cfg))

\* toggleConditional with the restoring of required left out
ToggleOne_NoRestore(dom, i, value) ==
    LET f == dom.controls[i].field
        conditionMet == ConditionMet(dom.fields[f].condition, value)
    IN  [fields |-> [dom.fields EXCEPT ![f].ariaHidden = BoolStr(~conditionMet)],
         controls |-> [dom.controls EXCEPT
            ![i].required = IF conditionMet THEN @ ELSE FALSE,
            ![i].tabindex = IF conditionMet THEN "" ELSE "-1"]]

\* toggleConditional with the removal of tabindex left out
ToggleOne_KeepTabindex(dom, i, value) ==
    LET f == dom.controls[i].field
        conditionMet == ConditionMet(dom.fields[f].condition, value)
    IN  [fields |-> [dom.fields EXCEPT ![f].ariaHidden = BoolStr(~conditionMet)],
         controls |-> [dom.controls EXCEPT
            ![i].required = IF conditionMet
                            THEN (IF dom.controls[i].originalRequired = "true" THEN TRUE ELSE @)
                            ELSE FALSE,
            ![i].tabindex = IF conditionMet THEN @ ELSE "-1"]]

\* toggleConditional setting required on every input it shows
ToggleOne_AlwaysRequire(dom, i, value) ==
    LET f == dom.controls[i].field
        conditionMet == ConditionMet(dom.fields[f].condition, value)
    IN  [fields |-> [dom.fields EXCEPT ![f].ariaHidden = BoolStr(~conditionMet)],
         controls |-> [dom.controls EXCEPT
            ![i].required = conditionMet,
            ![i].tabindex = IF conditionMet THEN "" ELSE "-1"]]

\* toggleConditional, one controlled input
ToggleOne(dom, i, value) ==
    LET f == dom.controls[i].field
        conditionMet == ConditionMet(dom.fields[f].condition, value)
    IN  [fields |-> [dom.fields EXCEPT ![f].ariaHidden = BoolStr(~conditionMet)],
         controls |-> [dom.controls EXCEPT
            ![i].required = IF conditionMet
                            THEN (IF dom.controls[i].originalRequired = "true" THEN TRUE ELSE @)
                            ELSE FALSE,
            ![i].tabindex = IF conditionMet THEN "" ELSE "-1"]]

RECURSIVE ToggleInputs(_, _, _)
ToggleInputs(dom, inputs, value) ==
    IF inputs = <<>> THEN dom
    ELSE ToggleInputs(ToggleOne(dom, Head(inputs), value), Tail(inputs), value)

\* toggleConditional without the test that the target's name is a key of the Map
toggleConditional_AnyTarget(dom, cfg, t) ==
    IF Len(cfg) # 0 THEN ToggleInputs(dom, cfg[1][2], dom.controls[t].value) ELSE dom

\* toggleConditional for a change event whose target is control t
toggleConditional(dom, cfg, t) ==
    LET k == ConfigIndex(cfg, dom.controls[t].name)
    IN  IF k # 0 THEN ToggleInputs(dom, cfg[k][2], dom.controls[t].value) ELSE dom

\* enableConditionals up to the registration of the change listener
enableConditionals(built) ==
    LET cfg == BuildConfig(built.elements, built.wrappers, 1, <<>>)
        linked == BuildAria(built.elements, built.wrappers, 1)
    IN  [config |-> cfg,
         dom |-> initConditionals([fields |-> built.wrappers, controls |-> linked], cfg)]

----------------------------------------------------------------------------
(* Submission Pipeline                                                     *)

\* toggleForm: every element of form.elements gets disabled = the argument
toggleForm(ctrls, disabled) ==
    [i \in 1..Len(ctrls) |-> [ctrls[i] EXCEPT !.disabled = disabled]]

\* generatePayload, one element added to the payload built so far
PayloadStep(payload, el) ==
    IF el.name # E /\ ~el.disabled
    THEN IF el.type = "radio"
         THEN IF el.checked THEN (el.name :> el.value) @@ payload ELSE payload
         ELSE IF el.type = "checkbox"
         THEN IF el.checked
              THEN (el.name :> (IF el.name \in DOMAIN payload /\ payload[el.name] # E
                                THEN payload[el.name] \o <<",">> \o el.value
                                ELSE el.value)) @@ payload
              ELSE payload
         ELSE (el.name :> el.value) @@ payload
    ELSE payload

RECURSIVE PayloadFrom(_, _, _)
PayloadFrom(ctrls, i, payload) ==
    IF i > Len(ctrls) THEN payload
    ELSE PayloadFrom(ctrls, i + 1, PayloadStep(payload, ctrls[i]))

\* generatePayload: a map from names to values
generatePayload(ctrls) == PayloadFrom(ctrls, 1, <<>>)

\* decorate's pattern of the mobile field: the source text '\\\\d{10}' is the string
\* \\d{10}, which as a regular expression is a backslash followed by ten letters d
sMobilePattern == <<"\\", "\\", "d", "{", "1", "0", "}">>
sBackslashTenD == <<"\\", "d", "d", "d", "d", "d", "d", "d", "d", "d", "d">>

\* the whole value matches the pattern attribute; the mobile pattern is the only one
\* the code sets
PatternMatches(pattern, value) ==
    IF pattern = sMobilePattern THEN value = sBackslashTenD ELSE TRUE

\* patternMismatch: a non-empty value of a text-like input that does not match
PatternMismatch(ctrls, i) ==
    /\ ctrls[i].tag = "input"
    /\ ctrls[i].type \in {"text", "tel", "email", "url", "search", "password"}
    /\ ctrls[i].pattern # E
    /\ ctrls[i].value # E
    /\ ~PatternMatches(ctrls[i].pattern, ctrls[i].value)

\* the constraint validation of the browser the code relies on: a disabled control, a
\* hidden input, a button and a fieldset are barred; required and pattern are the
\* constraints the model's forms carry
ValueMissing(ctrls, i) ==
    LET el == ctrls[i]
    IN  IF el.type = "radio"
        THEN /\ \E j \in 1..Len(ctrls) :
                  ctrls[j].type = "radio" /\ ctrls[j].name = el.name /\ ctrls[j].required
             /\ \A j \in 1..Len(ctrls) :
                  ctrls[j].type = "radio" /\ ctrls[j].name = el.name => ~ctrls[j].checked
        ELSE IF el.type = "checkbox" THEN el.required /\ ~el.checked
        ELSE IF el.tag = "select"
        THEN el.required /\ el.value = E /\ el.options[1].value = E
        ELSE el.required /\ el.value = E

Invalid(ctrls, i) ==
    /\ ctrls[i].tag \in {"input", "textarea", "select"}
    /\ ctrls[i].type # "hidden"
    /\ ~ctrls[i].disabled
    /\ (ValueMissing(ctrls, i) \/ PatternMismatch(ctrls, i))

\* form.reportValidity()
reportValidity(ctrls) == \A i \in 1..Len(ctrls) : ~Invalid(ctrls, i)

\* form.querySelector(':invalid:not(fieldset)'): index, 0 if none
FirstInvalid(ctrls) ==
    IF \E i \in 1..Len(ctrls) : Invalid(ctrls, i)
    THEN CHOOSE i \in 1..Len(ctrls) :
            Invalid(ctrls, i) /\ \A j \in 1..(i - 1) : ~Invalid(ctrls, j)
    ELSE 0

\* a sequence without its k-th element
RemoveAt(seq, k) == SubSeq(seq, 1, k - 1) \o SubSeq(seq, k + 1, Len(seq))

----------------------------------------------------------------------------
(* The forms of the model                                                  *)

sPlan == <<"p", "l", "a", "n">>
sBasicPro == <<"B", "a", "s", "i", "c", ",", " ", "P", "r", "o">>
sPro == <<"P", "r", "o">>
sPlanPro == <<"p", "l", "a", "n", "-", "p", "r", "o">>
sCode == <<"c", "o", "d", "e">>
sName == <<"n", "a", "m", "e">>
sNews == <<"n", "e", "w", "s">>
sNewsTrue == <<"n", "e", "w", "s", "-", "t", "r", "u", "e">>
sEmail == <<"e", "m", "a", "i", "l">>
sSize == <<"s", "i", "z", "e">>
sSizes == <<"S", ",", ",", "L">>
sSizeL == <<"s", "i", "z", "e", "-", "l">>
sPick == <<"P", "i", "c", "k">>
sNote == <<"n", "o", "t", "e">>
sExtras == <<"e", "x", "t", "r", "a", "s">>
sAB == <<"A", ",", "B">>
sOpts == <<"o", "p", "t", "s">>
sXY == <<"X", ",", "Y">>
sOptsX == <<"o", "p", "t", "s", "-", "x">>
sMore == <<"m", "o", "r", "e">>
sSrc == <<"s", "r", "c">>
sWeb == <<"w", "e", "b">>
sThanks == <<"/", "t">>
sV == <<"v">>
SubmitUrl == <<"/", "s">>

SubmitButton == Desc("submit", E, E, "", E, E, E, E)

\* a radio controller and a controlled text input, with a hidden input and a
\* confirmation descriptor
FormRadio(default, required, preset) ==
    << Desc("radio", sPlan, E, "", default, E, sBasicPro, E),
       Desc("text", sCode, E, required, preset, E, E, sPlanPro),
       Desc("hidden", sSrc, E, "", sWeb, E, E, E),
       Desc("confirmation", E, sThanks, "", E, E, E, E),
       SubmitButton >>

\* a toggle controller and a controlled, required text input
FormToggle(default) ==
    << Desc("toggle", sNews, E, "", default, E, E, E),
       Desc("email", sEmail, E, "true", E, E, E, sNewsTrue),
       SubmitButton >>

\* a select controller with an empty option and a controlled, required textarea
FormSelect(placeholder) ==
    << Desc("select", sSize, E, "", E, placeholder, sSizes, E),
       Desc("textarea", sNote, E, "true", E, E, E, sSizeL),
       SubmitButton >>

\* a radio controller, a controlled and required checkbox group, a required text input
FormGroup(default) ==
    << Desc("radio", sPlan, E, "", default, E, sBasicPro, E),
       Desc("checkbox", sExtras, E, "true", E, E, sAB, sPlanPro),
       Desc("text", sName, E, "true", E, E, E, E),
       SubmitButton >>

\* a checkbox group controller and a controlled text input
FormCheckbox ==
    << Desc("checkbox", sOpts, E, "", E, E, sXY, E),
       Desc("text", sMore, E, "", E, E, E, sOptsX),
       SubmitButton >>

\* a checkbox group whose first option is empty: options ",Y"
sBlankY == <<",", "Y">>
FormBlankOption ==
    << Desc("checkbox", sOpts, E, "", E, E, sBlankY, E),
       SubmitButton >>

\* a confirmation descriptor that names no target
FormNoTarget ==
    << Desc("text", sName, E, "", E, E, E, E),
       Desc("confirmation", E, E, "", E, E, E, E),
       SubmitButton >>

\* a required text-like input with the pattern attribute decorate gives the mobile field
FormPattern ==
    << [Desc("tel", sCode, E, "true", E, E, E, E) EXCEPT !.pattern = sMobilePattern],
       SubmitButton >>

\* a condition token written with a capital: conditional 'plan-Pro'
sPlanProMixed == <<"p", "l", "a", "n", "-", "P", "r", "o">>
FormMixedCase ==
    << Desc("radio", sPlan, E, "", E, E, sBasicPro, E),
       Desc("text", sCode, E, "", E, E, E, sPlanProMixed),
       SubmitButton >>

Forms ==
    {FormRadio(d, r, v) : d \in {E, sPro}, r \in {"true", ""}, v \in {E, sV}}
    \cup {FormToggle(d) : d \in {E, <<"t", "r", "u", "e">>}}
    \cup {FormSelect(ph) : ph \in {E, sPick}}
    \cup {FormGroup(d) : d \in {E, sPro}}
    \cup {FormCheckbox, FormBlankOption, FormNoTarget, FormMixedCase, FormPattern}

\* the values a user types
TextValues == {E, sV}

----------------------------------------------------------------------------
(* The state after buildForm(fields, submit)                               *)

sUndefined == <<"u", "n", "d", "e", "f", "i", "n", "e", "d">>

\* enableSubmission: fields.find((f) => f.type === 'confirmation'), label || default.
\* The values data-confirmation can take: a descriptor's empty label and default stand
\* for keys that are '' or absent; with default absent the assignment stores the
\* string "undefined", with default '' it stores ''.
ConfirmationOf(ds) ==
    LET cs == SelectSeq(ds, LAMBDA d : d.type = "confirmation")
    IN  IF cs = <<>> THEN {E}
        ELSE IF cs[1].label # E THEN {cs[1].label}
        ELSE IF cs[1].default # E THEN {cs[1].default}
        ELSE {E, sUndefined}

Dom == [fields |-> fields, controls |-> controls]

OtpIdle ==
    /\ resendCount = 0
    /\ timerId = "undefined"
    /\ intervals = 0
    /\ timerStarted = FALSE
    /\ remaining = 0
    /\ display = [loader |-> "none", resendButton |-> "none", limitMessage |-> "none"]
    /\ resendEvents = 0
    /\ timerStarts = 0
    /\ hasMobile = FALSE
    /\ mobileValue = E
    /\ otpEvent = "none"
    /\ otpErrorCount = 0
    /\ otpRetry = "none"
    /\ otpOutcome = "none"

\* a page without a loan slider block
SliderIdle ==
    /\ config = [min |-> 0, max |-> 0, step |-> 1, initial |-> 0]
    /\ amount = 0
    /\ pan = E
    /\ panTouched = FALSE
    /\ showResult = FALSE
    /\ sliderEvent = "none"

\* buildForm: the form is assembled, enableConditionals has run, enableSubmission has
\* set data-action and data-confirmation.  data-action is read back from the DOM at
\* every submit; the model also covers a form whose attribute is empty then.
FormBuilt(ds, submit) ==
    LET en == enableConditionals(buildForm(ds))
    IN  /\ descs = ds
        /\ children = formChildren(ds)
        /\ controls = en.dom.controls
        /\ fields = en.dom.fields
        /\ controllerConfig = en.config
        /\ action = submit
        /\ confirmation \in ConfirmationOf(ds)
        /\ calls = <<>>
        /\ posted = 0
        /\ lastPayload = <<>>
        /\ nSubmits = 0
        /\ lastValid = "none"
        /\ focus = 0
        /\ location = "page"
        /\ errors = 0
        /\ lastEvent = [type |-> "init", target |-> 0]

Init ==
    /\ \E ds \in Forms, submit \in {SubmitUrl, E} : FormBuilt(ds, submit)
    /\ OtpIdle
    /\ SliderIdle

----------------------------------------------------------------------------
(* Events of the form                                                      *)

\* a user can edit a control that is enabled and whose field is not hidden
Editable(i) ==
    /\ ~controls[i].disabled
    /\ controls[i].field # 0 => fields[controls[i].field].ariaHidden # "true"

\* an input listener that clears aria-invalid only once the whole form is valid
inputListener_WholeForm(ctrls, t) ==
    IF ctrls[t].ariaInvalid /\ reportValidity(ctrls)
    THEN [ctrls EXCEPT ![t].ariaInvalid = FALSE]
    ELSE ctrls

\* enableSubmission's input listener: aria-invalid is cleared once the target is valid
inputListener(ctrls, t) ==
    IF ctrls[t].ariaInvalid /\ ~ValueMissing(ctrls, t) /\ ~PatternMismatch(ctrls, t)
    THEN [ctrls EXCEPT ![t].ariaInvalid = FALSE]
    ELSE ctrls

\* buildToggle's change listener on the toggle input
toggleListener(ctrls, t) ==
    IF ctrls[t].ariaChecked # ""
    THEN [ctrls EXCEPT ![t].ariaChecked = BoolStr(ctrls[t].checked)]
    ELSE ctrls

\* a change event with target t: the target's own listener, then the form's
changeListeners(dom, cfg, t) ==
    toggleConditional([dom EXCEPT !.controls = toggleListener(dom.controls, t)], cfg, t)

\* the state left by an input event and a change event on t, after the edit made ctrls
EditDone(ctrls, t) ==
    LET dom == changeListeners([fields |-> fields, controls |-> inputListener(ctrls, t)],
                               controllerConfig, t)
    IN  /\ controls' = dom.controls
        /\ fields' = dom.fields
        /\ lastEvent' = [type |-> "change", target |-> t]
        /\ UNCHANGED <<descs, children, controllerConfig, action, confirmation, calls, posted,
                       lastPayload, nSubmits, lastValid, focus, location, errors>>
        /\ UNCHANGED <<otpVars, sliderVars>>

\* the user selects a radio: the others of its group are unchecked
SelectRadio ==
    \E t \in 1..Len(controls) :
        /\ controls[t].type = "radio" /\ Editable(t) /\ ~controls[t].checked
        /\ EditDone([i \in 1..Len(controls) |->
                        IF i = t THEN [controls[i] EXCEPT !.checked = TRUE]
                        ELSE IF controls[i].type = "radio" /\ controls[i].name = controls[t].name
                             THEN [controls[i] EXCEPT !.checked = FALSE]
                             ELSE controls[i]], t)

\* the user checks or unchecks a checkbox or a toggle
FlipCheckbox ==
    \E t \in 1..Len(controls) :
        /\ controls[t].type = "checkbox" /\ Editable(t)
        /\ EditDone([controls EXCEPT ![t].checked = ~@], t)

\* the user picks another enabled option of a select
PickOption ==
    \E t \in 1..Len(controls) :
        /\ controls[t].tag = "select" /\ Editable(t)
        /\ \E k \in 1..Len(controls[t].options) :
            /\ ~controls[t].options[k].disabled
            /\ controls[t].options[k].value # controls[t].value
            /\ EditDone([controls EXCEPT ![t].value = controls[t].options[k].value], t)

\* the user types into a text control: an input event
TypeText ==
    \E t \in 1..Len(controls), v \in TextValues :
        /\ controls[t].tag \in {"input", "textarea"}
        /\ controls[t].type \notin {"radio", "checkbox", "hidden"}
        /\ Editable(t)
        /\ v # controls[t].value
        /\ controls' = inputListener([controls EXCEPT ![t].value = v], t)
        /\ lastEvent' = [type |-> "input", target |-> t]
        /\ UNCHANGED <<descs, children, fields, controllerConfig, action, confirmation, calls, posted,
                       lastPayload, nSubmits, lastValid, focus, location, errors>>
        /\ UNCHANGED <<otpVars, sliderVars>>

\* handleSubmit up to its first await, or to its end when the action is missing
handleSubmitStart ==
    /\ lastPayload' = generatePayload(controls)
    /\ IF action = E
       THEN /\ errors' = errors + 1
            /\ controls' = toggleForm(toggleForm(controls, TRUE), FALSE)
            /\ UNCHANGED <<calls, posted>>
       ELSE /\ controls' = toggleForm(controls, TRUE)
            /\ calls' = Append(calls, "fetch")
            /\ posted' = posted + 1
            /\ UNCHANGED errors
    /\ UNCHANGED focus

\* the submit listener, when reportValidity() is false
markFirstInvalid ==
    LET firstInvalid == FirstInvalid(controls)
    IN  /\ focus' = IF firstInvalid # 0 THEN firstInvalid ELSE focus
        /\ controls' = IF firstInvalid # 0
                       THEN [controls EXCEPT ![firstInvalid].ariaInvalid = TRUE]
                       ELSE controls
        /\ UNCHANGED <<calls, posted, lastPayload, errors>>

\* enableSubmission's submit listener
Submit ==
    /\ nSubmits < MaxSubmits
    /\ nSubmits' = nSubmits + 1
    /\ lastValid' = BoolStr(reportValidity(controls))
    /\ IF reportValidity(controls) THEN handleSubmitStart ELSE markFirstInvalid
    /\ lastEvent' = [type |-> "submit", target |-> 0]
    /\ UNCHANGED <<descs, children, fields, controllerConfig, action, confirmation, location>>
    /\ UNCHANGED <<otpVars, sliderVars>>

\* the end of a handleSubmit with the finally block left out
handleSubmitEnd_NoFinally(k) ==
    /\ calls' = RemoveAt(calls, k)
    /\ lastEvent' = [type |-> "settle", target |-> 0]
    /\ UNCHANGED <<descs, children, controls, fields, controllerConfig, action, confirmation, posted,
                   lastPayload, nSubmits, lastValid, focus>>
    /\ UNCHANGED <<otpVars, sliderVars>>

\* the end of a handleSubmit: finally { toggleForm(form, false) }
handleSubmitEnd(k) ==
    /\ controls' = toggleForm(controls, FALSE)
    /\ calls' = RemoveAt(calls, k)
    /\ lastEvent' = [type |-> "settle", target |-> 0]
    /\ UNCHANGED <<descs, children, fields, controllerConfig, action, confirmation, posted,
                   lastPayload, nSubmits, lastValid, focus>>
    /\ UNCHANGED <<otpVars, sliderVars>>

\* fetch resolves with response.ok
FetchOk ==
    \E k \in 1..Len(calls) :
        /\ calls[k] = "fetch"
        /\ location' = IF confirmation # E THEN "confirmation" ELSE location
        /\ UNCHANGED errors
        /\ handleSubmitEnd(k)

\* fetch resolves with a non-success status: await response.text()
FetchNotOk ==
    \E k \in 1..Len(calls) :
        /\ calls[k] = "fetch"
        /\ calls' = [calls EXCEPT ![k] = "text"]
        /\ lastEvent' = [type |-> "response", target |-> 0]
        /\ UNCHANGED <<descs, children, controls, fields, controllerConfig, action, confirmation, posted,
                       lastPayload, nSubmits, lastValid, focus, location, errors>>
        /\ UNCHANGED <<otpVars, sliderVars>>

\* fetch rejects: catch, console.error
FetchRejected ==
    \E k \in 1..Len(calls) :
        /\ calls[k] = "fetch"
        /\ errors' = errors + 1
        /\ UNCHANGED location
        /\ handleSubmitEnd(k)

\* response.text() settles: the Error is thrown (or the rejection is), caught and logged
TextSettled ==
    \E k \in 1..Len(calls) :
        /\ calls[k] = "text"
        /\ errors' = errors + 1
        /\ UNCHANGED location
        /\ handleSubmitEnd(k)

Next ==
    \/ SelectRadio
    \/ FlipCheckbox
    \/ PickOption
    \/ TypeText
    \/ Submit
    \/ FetchOk
    \/ FetchNotOk
    \/ FetchRejected
    \/ TextSettled

Spec == Init /\ [][Next]_vars

----------------------------------------------------------------------------
(* OTP Verification Sub-flow: the resend affordance and its cooldown timer *)

ResendTimerSeconds == 30
ResendLimit == 3

sFirstName == <<"f", "i", "r", "s", "t", "N", "a", "m", "e">>
sLastName == <<"l", "a", "s", "t", "N", "a", "m", "e">>
sMobile == <<"m", "o", "b", "i", "l", "e">>
sOtp == <<"o", "t", "p">>
sNine == <<"9", "8", "7", "6", "5", "4", "3", "2", "1">>
sNineDash == <<"9", "8", "7", "6", "5", "-", "4", "3", "2", "1">>
sTen == <<"9", "8", "7", "6", "5", "4", "3", "2", "1", "0">>

\* the values typed into the mobile input
MobileValues == {E, sNine, sNineDash, sTen}

\* decorate's staticFields, with and without the mobile input
StaticFields(mobile) ==
    << Desc("text", sFirstName, E, "true", E, E, E, E),
       Desc("text", sLastName, E, "true", E, E, E, E) >>
    \o (IF mobile
        THEN << [Desc("tel", sMobile, E, "true", E, E, E, E) EXCEPT !.pattern = sMobilePattern] >>
        ELSE <<>>)
    \o << Desc("text", sOtp, E, "true", E, E, E, E),
          Desc("submit", <<"s", "u", "b", "m", "i", "t">>, E, "", E, E, E, E) >>

\* setVisibility(state)
setVisibility(state) ==
    [loader |-> IF state = "loading" THEN "flex" ELSE "none",
     resendButton |-> IF state = "ready" THEN "inline-flex" ELSE "none",
     limitMessage |-> IF state = "limit" THEN "block" ELSE "none"]

\* resetVisibility()
resetVisibility == [loader |-> "none", resendButton |-> "none", limitMessage |-> "none"]

\* the closure state of initOtpBehavior as one record
Otp ==
    [resendCount |-> resendCount, timerId |-> timerId, intervals |-> intervals,
     timerStarted |-> timerStarted, remaining |-> remaining, display |-> display,
     resendEvents |-> resendEvents, timerStarts |-> timerStarts]

\* a tick that shows the resend button at remaining <= 0 and leaves the interval running
tick_KeepInterval(o) ==
    [o EXCEPT
        !.display = IF o.remaining <= 0 THEN setVisibility("ready") ELSE @,
        !.remaining = @ - 1]

\* tick: at remaining <= 0 the interval is cleared and the state becomes ready
tick(o) ==
    [o EXCEPT
        !.intervals = IF o.remaining <= 0 /\ o.timerId # "undefined" THEN @ - 1 ELSE @,
        !.timerId = IF o.remaining <= 0 THEN "undefined" ELSE @,
        !.display = IF o.remaining <= 0 THEN setVisibility("ready") ELSE @,
        !.remaining = @ - 1]

\* startTimer(duration) without its started flag: every call runs tick and schedules
\* an interval
startTimer_NoGuard(o, duration) ==
    LET started == [o EXCEPT !.timerStarted = TRUE,
                             !.remaining = duration,
                             !.display = setVisibility("loading"),
                             !.timerStarts = @ + 1]
    IN  [tick(started) EXCEPT !.timerId = "interval", !.intervals = @ + 1]

\* startTimer(duration): a no-op once timerStarted is set
startTimer(o, duration) ==
    IF o.timerStarted THEN o
    ELSE LET started == [o EXCEPT !.timerStarted = TRUE,
                                  !.remaining = duration,
                                  !.display = setVisibility("loading"),
                                  !.timerStarts = @ + 1]
         IN  [tick(started) EXCEPT !.timerId = "interval", !.intervals = @ + 1]

\* value.replace(/\D/g, '')
DigitsOnly(s) == SelectSeq(s, LAMBDA c : c \in digitChars)

\* maybeStartTimer
maybeStartTimer(o, value) ==
    IF Len(DigitsOnly(value)) >= 10 THEN startTimer(o, ResendTimerSeconds) ELSE o

\* a click listener that dispatches otp:resend before it looks at the limit
resendClick_DispatchFirst(o) ==
    LET counted == [o EXCEPT !.resendCount = @ + 1, !.resendEvents = @ + 1]
    IN  IF counted.resendCount > ResendLimit
        THEN [counted EXCEPT !.display = setVisibility("limit")]
        ELSE startTimer(counted, ResendTimerSeconds)

\* the resend button's click listener
resendClick(o) ==
    LET counted == [o EXCEPT !.resendCount = @ + 1]
    IN  IF counted.resendCount > ResendLimit
        THEN [counted EXCEPT !.display = setVisibility("limit")]
        ELSE startTimer([counted EXCEPT !.resendEvents = @ + 1], ResendTimerSeconds)

SetOtp(o) ==
    /\ resendCount' = o.resendCount
    /\ timerId' = o.timerId
    /\ intervals' = o.intervals
    /\ timerStarted' = o.timerStarted
    /\ remaining' = o.remaining
    /\ display' = o.display
    /\ resendEvents' = o.resendEvents
    /\ timerStarts' = o.timerStarts

\* initOtpBehavior on decorate's form, up to the registration of its listeners
OtpAttached(mobile, value) ==
    LET fresh == [resendCount |-> 0, timerId |-> "undefined", intervals |-> 0,
                  timerStarted |-> FALSE, remaining |-> 0, display |-> resetVisibility,
                  resendEvents |-> 0, timerStarts |-> 0]
        o == IF mobile THEN maybeStartTimer(fresh, value)
             ELSE startTimer(fresh, ResendTimerSeconds)
    IN  /\ resendCount = o.resendCount
        /\ timerId = o.timerId
        /\ intervals = o.intervals
        /\ timerStarted = o.timerStarted
        /\ remaining = o.remaining
        /\ display = o.display
        /\ resendEvents = o.resendEvents
        /\ timerStarts = o.timerStarts
        /\ hasMobile = mobile
        /\ mobileValue = value
        /\ otpEvent = "none"
        /\ otpErrorCount = 0
        /\ otpRetry = "none"
        /\ otpOutcome = "none"

InitOtp ==
    \E mobile \in BOOLEAN, value \in {E, sTen} :
        /\ (~mobile => value = E)
        /\ FormBuilt(StaticFields(mobile), E)
        /\ OtpAttached(mobile, value)
        /\ SliderIdle

\* a click event on the resend button
ResendClick ==
    /\ resendCount < MaxClicks
    /\ SetOtp(resendClick(Otp))
    /\ otpEvent' = "click"
    /\ UNCHANGED <<hasMobile, mobileValue, otpErrorCount, otpRetry, otpOutcome>>
    /\ UNCHANGED <<formVars, sliderVars>>

\* the interval fires
Tick ==
    /\ intervals > 0
    /\ SetOtp(tick(Otp))
    /\ otpEvent' = "tick"
    /\ UNCHANGED <<hasMobile, mobileValue, otpErrorCount, otpRetry, otpOutcome>>
    /\ UNCHANGED <<formVars, sliderVars>>

\* an input event on the mobile input
MobileInput ==
    \E value \in MobileValues :
        /\ hasMobile
        /\ value # mobileValue
        /\ mobileValue' = value
        /\ SetOtp(maybeStartTimer(Otp, value))
        /\ otpEvent' = "input"
        /\ UNCHANGED <<hasMobile, otpErrorCount, otpRetry, otpOutcome>>
        /\ UNCHANGED <<formVars, sliderVars>>

NextOtp ==
    \/ ResendClick
    \/ Tick
    \/ MobileInput

SpecOtp == InitOtp /\ [][NextOtp]_vars

----------------------------------------------------------------------------
(* OTP Verification Sub-flow: the submit listeners                         *)

OtpErrorThreshold == 0
otpErrorRedirect == E

s12345 == <<"1", "2", "3", "4", "5">>
s1234 == <<"1", "2", "3", "4">>

\* the values typed into the OTP input
OtpTexts == {E, s12345, s1234}

\* form.querySelector('input[name="..."]'): index of the first such input, 0 if none
InputNamed(ctrls, name) ==
    IF \E i \in 1..Len(ctrls) : ctrls[i].tag = "input" /\ ctrls[i].name = name
    THEN CHOOSE i \in 1..Len(ctrls) :
            /\ ctrls[i].tag = "input" /\ ctrls[i].name = name
            /\ \A j \in 1..(i - 1) : ~(ctrls[j].tag = "input" /\ ctrls[j].name = name)
    ELSE 0

otpInput == InputNamed(controls, toCamelCase(sOtp))
mobileInput == InputNamed(controls, sMobile)

\* form.elements as the submit listeners read them: the mobile input holds mobileValue
OtpElements ==
    [i \in 1..Len(controls) |->
        IF i = mobileInput THEN [controls[i] EXCEPT !.value = mobileValue] ELSE controls[i]]

\* the comparison with the fixed sentinel
verifyOtp_AnyValue(value) == value # E

verifyOtp(value) == value = s12345

\* the first submit listener with the count left as it was
errorCountListener_NoCount(count, ctrls, o) == [count |-> count, redirect |-> FALSE]

\* the first submit listener: the error count and whether it redirects
errorCountListener(count, ctrls, o) ==
    IF Invalid(ctrls, o)
    THEN [count |-> count + 1,
          redirect |-> OtpErrorThreshold # 0 /\ count + 1 >= OtpErrorThreshold
                       /\ otpErrorRedirect # E]
    ELSE [count |-> count, redirect |-> FALSE]

\* the user types into the first name, last name or OTP input
OtpType ==
    \E t \in 1..Len(controls), v \in OtpTexts \cup TextValues :
        /\ controls[t].tag = "input" /\ t # mobileInput
        /\ ~controls[t].disabled
        /\ v \in (IF t = otpInput THEN OtpTexts ELSE TextValues)
        /\ v # controls[t].value
        /\ controls' = [controls EXCEPT ![t].value = v]
        /\ lastEvent' = [type |-> "input", target |-> t]
        /\ otpEvent' = "type"
        /\ UNCHANGED <<descs, children, fields, controllerConfig, action, confirmation, calls, posted,
                       lastPayload, nSubmits, lastValid, focus, location, errors>>
        /\ UNCHANGED <<resendCount, timerId, intervals, timerStarted, remaining, display,
                       resendEvents, timerStarts, hasMobile, mobileValue,
                       otpErrorCount, otpRetry, otpOutcome>>
        /\ UNCHANGED sliderVars

\* a submit event on the OTP form: the error-count listener, then the verifying listener
OtpSubmit ==
    LET els == OtpElements
        o == otpInput
        counted == errorCountListener(otpErrorCount, els, o)
        valid == reportValidity(els)
        firstInvalid == FirstInvalid(els)
        matched == verifyOtp(els[o].value)
    IN  /\ nSubmits < MaxSubmits
        /\ nSubmits' = nSubmits + 1
        /\ otpErrorCount' = counted.count
        /\ lastValid' = BoolStr(valid)
        /\ otpOutcome' = IF ~valid THEN "invalid" ELSE IF matched THEN "match" ELSE "mismatch"
        /\ otpRetry' = IF valid /\ ~matched THEN "block" ELSE "none"
        /\ location' = IF valid /\ matched THEN "thank-you"
                       ELSE IF counted.redirect THEN "error-redirect" ELSE location
        /\ focus' = IF ~valid THEN (IF firstInvalid # 0 THEN firstInvalid ELSE focus)
                    ELSE IF matched THEN focus ELSE o
        /\ controls' = IF ~valid /\ firstInvalid # 0
                       THEN [controls EXCEPT ![firstInvalid].ariaInvalid = TRUE]
                       ELSE controls
        /\ lastEvent' = [type |-> "submit", target |-> 0]
        /\ otpEvent' = "submit"
        /\ UNCHANGED <<descs, children, fields, controllerConfig, action, confirmation, calls, posted,
                       lastPayload, errors>>
        /\ UNCHANGED <<resendCount, timerId, intervals, timerStarted, remaining, display,
                       resendEvents, timerStarts, hasMobile, mobileValue>>
        /\ UNCHANGED sliderVars

NextOtpSubmit ==
    \/ OtpType
    \/ MobileInput
    \/ OtpSubmit

SpecOtpSubmit == InitOtp /\ [][NextOtpSubmit]_vars

----------------------------------------------------------------------------
(* Vocabulary of the properties                                            *)

\* the controls held by the Controller->Controlled Map
ControlledInputs ==
    {i \in 1..Len(controls) :
        \E k \in 1..Len(controllerConfig) :
            \E n \in 1..Len(controllerConfig[k][2]) : controllerConfig[k][2][n] = i}

\* the controller name of a control of the Map
ControllerOf(i) ==
    controllerConfig[CHOOSE k \in 1..Len(controllerConfig) :
        \E n \in 1..Len(controllerConfig[k][2]) : controllerConfig[k][2][n] = i][1]

\* the form as assembled, before enableConditionals touched it
Pristine == buildForm(descs)

IsControl(i) == controls[i].tag \in {"input", "textarea", "select"}

HiddenField(f) == f # 0 /\ fields[f].ariaHidden = "true"
VisibleField(f) == f # 0 /\ fields[f].ariaHidden = "false"

AllEnabled == \A i \in 1..Len(controls) : ~controls[i].disabled
AllDisabled == \A i \in 1..Len(controls) : controls[i].disabled

\* the controls of a hidden field of the Map's controllers
InHiddenControlled(i) ==
    /\ IsControl(i)
    /\ HiddenField(controls[i].field)
    /\ fields[controls[i].field].hasController

\* what a change event leaves of a controlled input: visibility, required, tabindex
View(dom, i) ==
    [ariaHidden |-> dom.fields[dom.controls[i].field].ariaHidden,
     required |-> dom.controls[i].required,
     tabindex |-> dom.controls[i].tabindex]

----------------------------------------------------------------------------
(* Properties of the conditional visibility engine                         *)

\* C1: after enableConditionals and after every change event, every controlled field is
\* visible exactly when its controller has a value and the condition matches it; with
\* no value (nothing checked, an empty select value) the field is hidden.  The match is
\* taken as the code's own test, so that only the controller's current value is in
\* question.
C1_VisibleIffControllerValueMatches ==
    lastEvent.type \in {"init", "change"} =>
        \A i \in ControlledInputs :
            LET value == ControllerValue(controls, ControllerOf(i))
                f == controls[i].field
            IN  fields[f].ariaHidden
                    = BoolStr(~(value # E /\ ConditionMet(fields[f].condition, value)))

\* C2: the payload of a valid submit has no key for a control of a hidden controlled field
C2_HiddenFieldsNotInPayload ==
    (lastEvent.type = "submit" /\ lastValid = "true") =>
        \A i \in 1..Len(controls) :
            InHiddenControlled(i) => controls[i].name \notin DOMAIN lastPayload

\* C4: a control of the Map that was required at assembly keeps its snapshot, is not
\* required while its field is hidden and is required whenever its field is visible
C4_RequiredRoundTrip ==
    \A i \in ControlledInputs :
        Pristine.elements[i].required =>
            /\ controls[i].originalRequired = "true"
            /\ HiddenField(controls[i].field) => ~controls[i].required
            /\ VisibleField(controls[i].field) => controls[i].required
            /\ HiddenField(controls[i].field) \/ VisibleField(controls[i].field)

\* C4's case: a field that enableConditionals hid, shown again by a change event, with
\* required restored
C4_Witness_ShownAgainRequired ==
    \E i \in ControlledInputs :
        /\ Pristine.elements[i].required
        /\ ControllerValue(Pristine.elements, ControllerOf(i)) = E
        /\ lastEvent.type = "change"
        /\ VisibleField(controls[i].field)
        /\ controls[i].required

\* C5: no control inside a hidden controlled field is required or invalid, whichever
\* option input of a group it is
C5_NoRequiredInHiddenField ==
    \A i \in 1..Len(controls) :
        InHiddenControlled(i) => ~controls[i].required /\ ~Invalid(controls, i)

\* C6: after a change event on a controller, the controlled inputs look as
\* initConditionals leaves them on the assembled form when the controller holds the
\* value it holds now (none when nothing is checked or the select value is empty)
C6_ToggleAgreesWithInit ==
    (lastEvent.type = "change"
        /\ ConfigIndex(controllerConfig, controls[lastEvent.target].name) # 0) =>
        LET name == controls[lastEvent.target].name
            inputs == controllerConfig[ConfigIndex(controllerConfig, name)][2]
            value == ControllerValue(controls, name)
            asInit == InitInputs([fields |-> Pristine.wrappers, controls |-> Pristine.elements],
                                 inputs, value # E, value)
        IN  \A n \in 1..Len(inputs) : View(Dom, inputs[n]) = View(asInit, inputs[n])

\* C19: a control of the Map has tabindex -1 exactly when its field is hidden, and has
\* no tabindex attribute when its field is visible
C19_TabindexFollowsHidden ==
    \A i \in ControlledInputs :
        /\ controls[i].tabindex = "-1" <=> HiddenField(controls[i].field)
        /\ VisibleField(controls[i].field) => controls[i].tabindex = ""
        /\ controls[i].tabindex \in {"", "-1"}

\* C19's case: a field hidden at initialization with tabindex -1 has been shown by a
\* change event and carries no tabindex
C19_Witness_ShownWithoutTabindex ==
    \E i \in ControlledInputs :
        /\ ControllerValue(Pristine.elements, ControllerOf(i)) = E
        /\ lastEvent.type = "change"
        /\ VisibleField(controls[i].field)
        /\ controls[i].tabindex = ""

\* C20: after a change event on a controller, a controlled field is visible exactly when
\* the normalized condition contains the normalized value of the event's target
C20_BothSidesNormalized ==
    (lastEvent.type = "change"
        /\ ConfigIndex(controllerConfig, controls[lastEvent.target].name) # 0) =>
        LET k == ConfigIndex(controllerConfig, controls[lastEvent.target].name)
            value == controls[lastEvent.target].value
        IN  \A n \in 1..Len(controllerConfig[k][2]) :
                LET f == controls[controllerConfig[k][2][n]].field
                IN  VisibleField(f)
                        <=> Includes(toClassName(fields[f].condition), toClassName(value))

----------------------------------------------------------------------------
(* Properties of the submission pipeline                                   *)

\* the transport call settles: fetch resolves or rejects, and the body read of a
\* non-success response settles
FairSpec ==
    /\ Init
    /\ [][Next]_vars
    /\ WF_vars(FetchOk \/ FetchNotOk \/ FetchRejected)
    /\ WF_vars(TextSettled)

\* a step in which a handleSubmit runs to its end: a suspended activation finishes, or
\* a valid submit finds no submit target and finishes at once
HandleSubmitEnds ==
    \/ Len(calls') < Len(calls)
    \/ nSubmits' = nSubmits + 1 /\ lastValid' = "true" /\ posted' = posted

\* C8: every handleSubmit ends with every control enabled, whatever its outcome, and
\* while a transport call is pending the form is eventually enabled again
C8_FormReenabled ==
    /\ [][HandleSubmitEnds => AllEnabled']_vars
    /\ (calls # <<>>) ~> AllEnabled

\* C8's case: a handleSubmit that was suspended at its await has ended after the
\* controls were disabled
C8_Witness_EndedAfterAwait ==
    /\ lastEvent.type = "settle"
    /\ posted > 0
    /\ errors > 0
    /\ calls = <<>>
    /\ AllEnabled

\* C9: while a transport call is in flight every control is disabled and no second
\* call is in flight for the form
C9_OneCallAllDisabled ==
    /\ Len(calls) <= 1
    /\ calls # <<>> => AllDisabled

\* a required control of a visible field, or of no field, that is enabled and has no value
RequiredVisibleEmpty(ctrls, flds, i) ==
    /\ ctrls[i].tag \in {"input", "textarea", "select"}
    /\ ctrls[i].type # "hidden"
    /\ ctrls[i].field # 0 => flds[ctrls[i].field].ariaHidden # "true"
    /\ ctrls[i].required
    /\ ValueMissing(ctrls, i)

\* C10: a submit event that finds a required, visible field without a value reports
\* false, gives focus and aria-invalid to such a field, disables nothing and issues no
\* transport call
C10_InvalidSubmitMarksField ==
    [][(nSubmits' = nSubmits + 1
            /\ \E i \in 1..Len(controls) : RequiredVisibleEmpty(controls, fields, i)) =>
        /\ lastValid' = "false"
        /\ \E i \in 1..Len(controls) :
              /\ RequiredVisibleEmpty(controls, fields, i)
              /\ focus' = i
              /\ controls'[i].ariaInvalid
        /\ \A i \in 1..Len(controls) : controls'[i].disabled = controls[i].disabled
        /\ posted' = posted
        /\ calls' = calls]_vars

----------------------------------------------------------------------------
(* Properties of the resend affordance                                     *)

\* C3: a resend click in the ready state that leaves the counter at or below the limit
\* dispatches one otp:resend and restarts the cooldown: a new interval counts down from
\* the full duration, the countdown is shown and the resend button hidden
C3_ResendRestartsCooldown ==
    [][(resendCount' = resendCount + 1 /\ resendCount' <= ResendLimit
            /\ display = setVisibility("ready")) =>
        /\ resendEvents' = resendEvents + 1
        /\ display' = setVisibility("loading")
        /\ timerId' = "interval"
        /\ remaining' = ResendTimerSeconds - 1]_vars

LimitState == display = setVisibility("limit")

\* C7: the click that takes the counter past the limit shows the limit state, and from
\* the limit state on no event leaves it, restarts the timer, lowers the counter or
\* dispatches otp:resend
C7_LimitIsTerminal ==
    [][/\ (resendCount' = resendCount + 1 /\ resendCount' = ResendLimit + 1) => LimitState'
       /\ (resendCount > ResendLimit /\ LimitState) =>
            /\ LimitState'
            /\ resendCount' >= resendCount
            /\ resendEvents' = resendEvents
            /\ timerStarts' = timerStarts]_vars

----------------------------------------------------------------------------
(* The Form Assembler over descriptor sequences                            *)

MaxDescs == 3

\* the descriptors a sequence is drawn from, one of each kind buildForm tells apart,
\* with a radio controller without and with a default, a select of the same name and
\* two fields they control
DescPool ==
    { Desc("text", sName, E, "", E, E, E, E),
      Desc("hidden", sSrc, E, "", sWeb, E, E, E),
      Desc("checkbox", sOpts, E, "", E, E, sXY, E),
      Desc("radio", sPlan, E, "", E, E, E, E),
      Desc("radio", sPlan, E, "", E, E, sBasicPro, E),
      Desc("radio", sPlan, E, "", sPro, E, sBasicPro, E),
      Desc("select", sPlan, E, "", E, E, sBasicPro, E),
      Desc("text", sCode, E, "true", E, E, E, sPlanPro),
      Desc("textarea", sNote, E, "", E, E, E, sPlanPro),
      Desc("submit", E, E, "", E, E, E, E),
      Desc("reset", E, E, "", E, E, E, E),
      Desc("confirmation", E, sThanks, "", E, E, E, E) }

InitBuild == FormBuilt(<<>>, E) /\ OtpIdle /\ SliderIdle

\* buildForm on the sequence with one more descriptor
BuildLonger ==
    \E d \in DescPool :
        LET ds == Append(descs, d)
            en == enableConditionals(buildForm(ds))
        IN  /\ Len(descs) < MaxDescs
            /\ descs' = ds
            /\ children' = formChildren(ds)
            /\ controls' = en.dom.controls
            /\ fields' = en.dom.fields
            /\ controllerConfig' = en.config
            /\ lastEvent' = [type |-> "init", target |-> 0]
            /\ UNCHANGED <<action, confirmation, calls, posted, lastPayload, nSubmits,
                           lastValid, focus, location, errors>>
            /\ UNCHANGED <<otpVars, sliderVars>>

NextBuild == BuildLonger

SpecBuild == InitBuild /\ [][NextBuild]_vars

\* the indices of the descriptors of the given types, in descriptor order
RECURSIVE IndicesOf(_, _, _)
IndicesOf(ds, k, types) ==
    IF k > Len(ds) THEN <<>>
    ELSE (IF ds[k].type \in types THEN <<k>> ELSE <<>>) \o IndicesOf(ds, k + 1, types)

\* C18: the children of the form are the fields of the non-button, non-confirmation
\* descriptors in descriptor order, then one wrapper holding the submit and reset
\* buttons in their descriptor order, and no wrapper when there is no button;
\* a confirmation descriptor has no child
C18_FieldsThenOneButtonWrapper ==
    LET buttons == IndicesOf(descs, 1, {"submit", "reset"})
        body == IndicesOf(descs, 1, {d.type : d \in DescPool} \ {"submit", "reset", "confirmation"})
    IN  /\ Len(children) = Len(body) + (IF Len(buttons) = 0 THEN 0 ELSE 1)
        /\ \A j \in 1..Len(body) :
              children[j].from = <<body[j]>> /\ children[j].tag # "button-wrapper"
        /\ Len(buttons) # 0 =>
              /\ children[Len(children)].tag = "button-wrapper"
              /\ children[Len(children)].from = buttons

\* C18's case: a button ahead of a field and a second button behind it
C18_Witness_ButtonsGathered ==
    /\ Len(descs) = 3
    /\ descs[1].type = "submit" /\ descs[2].type = "text" /\ descs[3].type = "reset"
    /\ Len(children) = 2
    /\ children[2] = [tag |-> "button-wrapper", from |-> <<1, 3>>]

----------------------------------------------------------------------------
(* Properties of the OTP submit listeners                                  *)

\* a step of the submit listeners of the OTP form
OtpSubmitted == nSubmits' = nSubmits + 1

\* C11: an OTP submit that passes constraint validation navigates to the success
\* destination when the OTP value is "12345"; with any other value the location is
\* left alone, the retry message is shown, the OTP input is focused and keeps its value
C11_OtpSentinelDecides ==
    [][(OtpSubmitted /\ reportValidity(OtpElements)) =>
        LET value == controls[otpInput].value
        IN  IF value = s12345
            THEN location' = "thank-you" /\ otpRetry' = "none"
            ELSE /\ location' = location
                 /\ otpRetry' = "block"
                 /\ focus' = otpInput
                 /\ controls'[otpInput].value = value]_vars

\* C11's cases: a valid submit with the sentinel has navigated; one with another value
\* has shown the retry message on the page
C11_Witness_MatchNavigated ==
    /\ otpOutcome = "match" /\ location = "thank-you"
    /\ controls[otpInput].value = s12345

\* C12: an OTP submit whose OTP input is invalid adds one to the error counter, makes
\* no comparison, leaves the location alone and leaves the retry message hidden
C12_InvalidOtpCountsAndStops ==
    [][(OtpSubmitted /\ Invalid(OtpElements, otpInput)) =>
        /\ otpErrorCount' = otpErrorCount + 1
        /\ otpOutcome' = "invalid"
        /\ location' = location
        /\ otpRetry' = "none"]_vars

\* C12's case: after a mismatch showed the retry message, a submit with the OTP input
\* emptied has counted one error
C12_Witness_CountedAfterRetry ==
    /\ otpOutcome = "invalid" /\ otpErrorCount = 1 /\ nSubmits = 2
    /\ controls[otpInput].value = E
    /\ otpRetry = "none" /\ location = "page"
    /\ focus = otpInput

----------------------------------------------------------------------------
(* Properties of the payload                                               *)

\* a submit event whose validation passed
ValidSubmit == nSubmits' = nSubmits + 1 /\ lastValid' = "true"

\* the values of the enabled, checked inputs of the given type and name, in DOM order
CheckedValues(ctrls, type, name) ==
    LET picked == SelectSeq(ctrls, LAMBDA el : el.type = type /\ el.name = name
                                               /\ ~el.disabled /\ el.checked)
    IN  [k \in 1..Len(picked) |-> picked[k].value]

RECURSIVE CommaJoin(_)
CommaJoin(vals) ==
    IF Len(vals) = 0 THEN E
    ELSE IF Len(vals) = 1 THEN vals[1]
    ELSE vals[1] \o <<",">> \o CommaJoin(Tail(vals))

\* C13: the payload of a valid submit maps the name of each group of enabled checkboxes
\* to the comma-join of its checked values in DOM order, has no key for a group with
\* nothing checked, and maps a radio group to the value of its checked radio only
C13_GroupsCommaJoined ==
    [][ValidSubmit =>
        \A i \in 1..Len(controls) :
            (controls[i].type \in {"checkbox", "radio"} /\ controls[i].name # E
                /\ ~controls[i].disabled) =>
                LET name == controls[i].name
                    vals == CheckedValues(controls, controls[i].type, name)
                IN  IF vals = <<>> THEN name \notin DOMAIN lastPayload'
                    ELSE /\ name \in DOMAIN lastPayload'
                         /\ lastPayload'[name] = CommaJoin(vals)]_vars

----------------------------------------------------------------------------
(* Properties of handleSubmit's outcomes                                   *)

\* the descriptors name a confirmation target
TargetConfigured ==
    \E k \in 1..Len(descs) :
        descs[k].type = "confirmation" /\ (descs[k].label # E \/ descs[k].default # E)

\* a handleSubmit suspended at an await ends
CallEnds == Len(calls') < Len(calls)

\* C14: the location changes only when a transport call came back ok and a confirmation
\* target is configured; a call that ends otherwise is reported once and leaves the
\* location alone; a valid submit without a submit target issues no transport call, is
\* reported once and leaves the location alone
C14_NavigationOnlyOnSuccess ==
    [][/\ location' # location =>
            /\ CallEnds /\ errors' = errors
            /\ TargetConfigured
            /\ location' = "confirmation"
       /\ CallEnds => \/ errors' = errors + 1 /\ location' = location
                      \/ errors' = errors
       /\ (ValidSubmit /\ action = E) =>
            /\ posted' = posted /\ calls' = calls
            /\ errors' = errors + 1
            /\ location' = location]_vars

----------------------------------------------------------------------------
(* Properties of the cooldown timer                                        *)

\* the interval callback is run by the browser as long as the interval is scheduled
FairSpecOtp == InitOtp /\ [][NextOtp]_vars /\ WF_vars(Tick)

\* the interval callback runs
TickRuns == otpEvent' = "tick" /\ remaining' = remaining - 1

\* C15: while the interval of a started timer is scheduled the affordance shows loading;
\* a tick clears the interval exactly when the remaining count has reached zero, and
\* that tick moves the affordance from loading to ready; no tick runs without a
\* scheduled interval; with the callback run fairly a started timer reaches ready
C15_CountdownEndsInReady ==
    /\ [](timerId = "interval" => display = setVisibility("loading"))
    /\ [][TickRuns =>
            /\ timerId = "interval" /\ intervals = 1
            /\ IF remaining <= 0
               THEN /\ intervals' = 0 /\ timerId' = "undefined"
                    /\ display = setVisibility("loading")
                    /\ display' = setVisibility("ready")
               ELSE intervals' = intervals /\ timerId' = timerId /\ display' = display]_vars
    /\ (timerId = "interval" ~> display = setVisibility("ready"))

\* the handler that ran called startTimer: a click that left the counter within the
\* limit, or a mobile input event with ten digits or more
StartTimerCalled ==
    \/ otpEvent' = "click" /\ resendCount' = resendCount + 1 /\ resendCount' <= ResendLimit
    \/ otpEvent' = "input" /\ mobileValue' # mobileValue
            /\ Len(DigitsOnly(mobileValue')) >= 10

\* C16: at most one interval is scheduled at any time and startTimer passes its guard at
\* most once; a call of startTimer on a started timer leaves the remaining count, the
\* displayed state and the scheduled intervals as they were
C16_StartTimerOnceOnly ==
    /\ [](intervals <= 1 /\ timerStarts <= 1)
    /\ [][(timerStarted /\ StartTimerCalled) =>
            /\ remaining' = remaining
            /\ display' = display
            /\ intervals' = intervals /\ timerId' = timerId
            /\ timerStarts' = timerStarts]_vars

\* C16's case: with the countdown under way, the mobile input reaches ten digits again
\* and maybeStartTimer calls startTimer
C16_Witness_StartedAgainMidCountdown ==
    /\ otpEvent = "input" /\ mobileValue = sTen
    /\ timerStarted /\ intervals = 1 /\ remaining < ResendTimerSeconds - 1
    /\ display = setVisibility("loading")

\* the affordance before any trigger: loader, resend button and limit message hidden
Neutral == display = resetVisibility

\* C17: with a mobile input, the affordance is neutral and no timer runs as long as the
\* digit-only length of the input has never reached 10, and the timer starts at the
\* event where it first does; without a mobile input the timer is started at attach
C17_TimerWaitsForMobile ==
    /\ [](hasMobile /\ ~timerStarted => Neutral /\ intervals = 0 /\ timerId = "undefined")
    /\ [][(hasMobile /\ ~timerStarted) =>
            (timerStarted' <=> (otpEvent' = "input" /\ Len(DigitsOnly(mobileValue')) >= 10))]_vars
    /\ [](~hasMobile => timerStarted)

----------------------------------------------------------------------------
(* Properties of the invalid submit                                        *)

\* a submit event whose validation failed
InvalidSubmit == nSubmits' = nSubmits + 1 /\ lastValid' = "false"

\* an invalid control that is not inside a hidden field
VisibleInvalid(i) ==
    /\ Invalid(controls, i)
    /\ controls[i].field # 0 => fields[controls[i].field].ariaHidden # "true"

\* C21: on an invalid submit no control inside a hidden controlled field is focused or
\* newly marked aria-invalid, and when an invalid control is visible the first such
\* control is the one focused and marked
C21_FocusFirstVisibleInvalid ==
    [][InvalidSubmit =>
        /\ \A i \in 1..Len(controls) :
              InHiddenControlled(i) =>
                  /\ focus' = i => focus = i
                  /\ controls'[i].ariaInvalid => controls[i].ariaInvalid
        /\ \A i \in 1..Len(controls) :
              (VisibleInvalid(i) /\ \A j \in 1..(i - 1) : ~VisibleInvalid(j)) =>
                  focus' = i /\ controls'[i].ariaInvalid]_vars

----------------------------------------------------------------------------
(* Properties of the ARIA relationships                                    *)

\* the number of places of a sequence that hold x
Occurrences(seq, x) == Cardinality({k \in 1..Len(seq) : seq[k] = x})

\* C22: every input carrying a controller's name lists in aria-controls, separated by
\* spaces, the id of each control of the controller's Map entry exactly once and
\* nothing else, and each control of the entry names in aria-controlledby an input
\* carrying the controller's name
C22_AriaControlsUnion ==
    \A k \in 1..Len(controllerConfig) :
        LET controller == controllerConfig[k][1]
            inputs == controllerConfig[k][2]
            named == {j \in 1..Len(controls) : controls[j].name = controller}
        IN  /\ \A j \in named :
                  LET ids == Split(controls[j].ariaControls, " ")
                  IN  /\ \A n \in 1..Len(inputs) : Occurrences(ids, controls[inputs[n]].id) = 1
                      /\ \A m \in 1..Len(ids) :
                            \E n \in 1..Len(inputs) : ids[m] = controls[inputs[n]].id
            /\ named # {} =>
                  \A n \in 1..Len(inputs) :
                      \E j \in named : controls[inputs[n]].ariaControlledby = controls[j].id

\* C22's case: a controller with two inputs, each listing the ids of two controlled
\* controls
C22_Witness_TwoIdsAccumulated ==
    \E k \in 1..Len(controllerConfig) :
        /\ Len(controllerConfig[k][2]) = 2
        /\ controls[controllerConfig[k][2][1]].id # controls[controllerConfig[k][2][2]].id
        /\ Cardinality({j \in 1..Len(controls) :
                            /\ controls[j].name = controllerConfig[k][1]
                            /\ Len(Split(controls[j].ariaControls, " ")) = 2}) = 2

----------------------------------------------------------------------------
(* Frame of a change event                                                 *)

\* a change event was handled whose target's name is not a key of the Map
InertChange ==
    /\ lastEvent'.type = "change"
    /\ lastEvent' # lastEvent \/ controls' # controls
    /\ ConfigIndex(controllerConfig, controls[lastEvent'.target].name) = 0

\* C23: a change event on a target whose name is no key of the Map leaves aria-hidden of
\* every field and required and tabindex of every control as they were, and no step
\* changes the Map
C23_InertChangeKeepsFields ==
    /\ [][InertChange =>
            /\ \A f \in 1..Len(fields) : fields'[f].ariaHidden = fields[f].ariaHidden
            /\ \A i \in 1..Len(controls) :
                  /\ controls'[i].required = controls[i].required
                  /\ controls'[i].tabindex = controls[i].tabindex]_vars
    /\ [][controllerConfig' = controllerConfig]_vars

\* C23's case: a change event on a checkbox of a controlled group, whose name is no key
\* of the Map, with the group still visible and required
C23_Witness_InertChangeHandled ==
    /\ lastEvent.type = "change"
    /\ Len(controllerConfig) # 0
    /\ ConfigIndex(controllerConfig, controls[lastEvent.target].name) = 0
    /\ VisibleField(controls[lastEvent.target].field)
    /\ controls[lastEvent.target].checked
    /\ \E i \in ControlledInputs : controls[i].required /\ controls[i].tabindex = ""

----------------------------------------------------------------------------
(* The input listener                                                      *)

\* an input event was handled on a control that carried aria-invalid
InputOnMarked ==
    /\ lastEvent'.type \in {"input", "change"}
    /\ lastEvent' # lastEvent \/ controls' # controls
    /\ controls[lastEvent'.target].ariaInvalid

\* target.validity.valid of control t
ValidityValid(ctrls, t) == ~ValueMissing(ctrls, t) /\ ~PatternMismatch(ctrls, t)

\* C24: an input event on a control marked aria-invalid removes the attribute exactly
\* when that control's own validity is true at the event, whatever the other fields'
\* validity and without a submit; on a control that is still invalid it stays set
C24_InputClearsWhenTargetValid ==
    [][InputOnMarked =>
          /\ controls'[lastEvent'.target].ariaInvalid
                = ~ValidityValid(controls', lastEvent'.target)
          /\ nSubmits' = nSubmits]_vars

\* C24's case: the control focused and marked by a failed submit took an input event
\* that made it valid and lost aria-invalid while another control is still invalid
C24_Witness_ClearedWhileFormInvalid ==
    /\ lastValid = "false"
    /\ lastEvent.type \in {"input", "change"}
    /\ lastEvent.target = focus
    /\ ~controls[focus].ariaInvalid
    /\ ValidityValid(controls, focus)
    /\ \E j \in 1..Len(controls) : j # focus /\ Invalid(controls, j)

----------------------------------------------------------------------------
(* The state initConditionals leaves                                       *)

\* the least of a non-empty set of indices: the first in document order
First(S) == CHOOSE i \in S : \A j \in S : i <= j

\* the controls with the given name that are checked, and the selects with that name
CheckedNamed(name) == {i \in 1..Len(controls) : controls[i].name = name /\ controls[i].checked}
SelectsNamed(name) == {i \in 1..Len(controls) : controls[i].name = name /\ controls[i].tag = "select"}

\* the value the claim gives a controller: the checked control's, else the select's, else none
ResolvedValue(name) ==
    IF CheckedNamed(name) # {} THEN controls[First(CheckedNamed(name))].value
    ELSE IF SelectsNamed(name) # {} THEN controls[First(SelectsNamed(name))].value
    ELSE E

\* C25: after initialization a controller's value is that of the checked radio or
\* checkbox of its name if there is one, else the select's value, else none: a resolved
\* value sets the visibility of every controlled field by its condition, and with no
\* value every controlled field is hidden, its control has lost required (the snapshot
\* taken first) and has tabindex -1
C25_InitResolvesController ==
    lastEvent.type = "init" =>
        \A k \in 1..Len(controllerConfig) : \A n \in 1..Len(controllerConfig[k][2]) :
            LET value == ResolvedValue(controllerConfig[k][1])
                i == controllerConfig[k][2][n]
                f == controls[i].field
            IN  IF value # E
                THEN fields[f].ariaHidden = BoolStr(~ConditionMet(fields[f].condition, value))
                ELSE /\ fields[f].ariaHidden = "true"
                     /\ ~controls[i].required
                     /\ controls[i].tabindex = "-1"
                     /\ Pristine.elements[i].required => controls[i].originalRequired = "true"

\* C25's case: a checked radio and a select share the controller's name and disagree,
\* and the controlled field follows the checked radio
C25_Witness_CheckedBeforeSelect ==
    /\ lastEvent.type = "init"
    /\ \E k \in 1..Len(controllerConfig) :
          /\ CheckedNamed(controllerConfig[k][1]) # {}
          /\ SelectsNamed(controllerConfig[k][1]) # {}
          /\ \E n \in 1..Len(controllerConfig[k][2]) :
                LET f == controls[controllerConfig[k][2][n]].field
                IN  /\ VisibleField(f)
                    /\ ~ConditionMet(fields[f].condition,
                                     controls[First(SelectsNamed(controllerConfig[k][1]))].value)

----------------------------------------------------------------------------
(* Properties of the resend affordance                                     *)

\* C26: whatever the resend clicks, otp:resend is dispatched at most resendLimit times,
\* and the number of dispatched events is the lesser of the resend counter and the limit
C26_ResendEventsCapped ==
    /\ resendEvents <= ResendLimit
    /\ resendEvents = IF resendCount < ResendLimit THEN resendCount ELSE ResendLimit

\* C26's case: clicks went on past the limit and the events stopped at it
C26_Witness_ClickedPastLimit ==
    /\ resendCount > ResendLimit + 1
    /\ resendEvents = ResendLimit
    /\ otpEvent = "click"

\* the affordance elements whose display is not none
Displayed == {a \in DOMAIN display : display[a] # "none"}

\* C27: at most one of the loader, the resend button and the limit message is
\* displayed, and the resend button is displayed only while no interval is active
C27_OneAffordanceAtATime ==
    /\ Cardinality(Displayed) <= 1
    /\ display.resendButton # "none" => (intervals = 0 /\ timerId = "undefined")

\* C27's case: the countdown ran out, its interval was cleared and the button is shown
C27_Witness_ButtonAfterCountdown ==
    /\ Displayed = {"resendButton"}
    /\ timerStarts > 0
    /\ remaining < 0
    /\ otpEvent = "tick"

----------------------------------------------------------------------------
(* Required is only ever restored                                          *)

\* C28: the engine never makes required a control that was not required when the form
\* was assembled: a control of the Map that carries required has originalRequired =
\* 'true', and every control that carries required was built with it
C28_RequiredOnlyIfOriginallyRequired ==
    /\ \A i \in ControlledInputs :
          controls[i].required => controls[i].originalRequired = "true"
    /\ LET built == Pristine.elements
       IN  \A i \in 1..Len(controls) : controls[i].required => built[i].required

\* C28's case: a change event on its controller shows the field of a controlled control
\* built without required, and the control is still without it
C28_Witness_ShownAfterChange ==
    /\ lastEvent.type = "change"
    /\ \E i \in ControlledInputs :
          /\ VisibleField(controls[i].field)
          /\ controls[lastEvent.target].name = ControllerOf(i)
          /\ ~Pristine.elements[i].required
          /\ ~controls[i].required

----------------------------------------------------------------------------
(* Loan slider (src/unnamed/part_000)                                      *)

PAN_THRESHOLD == 50000

DefaultMin == 10000
DefaultMax == 200000
DefaultStep == 1000
DefaultInitial == 50000

\* the outcome of Number(...) on a config text or an input's value: a finite number n,
\* or a value Number.isFinite rejects
NotFinite == [finite |-> FALSE, n |-> 0]
Num(n) == [finite |-> TRUE, n |-> n]

\* toNumber: the parsed value when it is finite, else the fallback; a missing key gives
\* the fallback text, whose number is the fallback
toNumber(parsed, fallback) == IF parsed.finite THEN parsed.n ELSE fallback

\* Math.min, Math.max
MathMin(a, b) == IF a <= b THEN a ELSE b
MathMax(a, b) == IF a >= b THEN a ELSE b

\* clamp
clamp(value, min, max) == MathMin(max, MathMax(min, value))

\* Math.round(a / s) for integers a and s > 0: the nearest integer, a half rounded up
MathRoundDiv(a, s) == (2 * a + s) \div (2 * s)

\* snapToStep; on the integers of the model the result is always finite
snapToStep(value, min, step) == MathRoundDiv(value - min, step) * step + min

\* the config object after lines 144-157: the defaults, min and max put in order,
\* a step that is not positive replaced by the default
LoanSliderConfig(rawMin, rawMax, rawStep, rawInitial) ==
    LET min0 == toNumber(rawMin, DefaultMin)
        max0 == toNumber(rawMax, DefaultMax)
        step0 == toNumber(rawStep, DefaultStep)
        min1 == MathMin(min0, max0)
    IN  [min |-> min1,
         max |-> MathMax(min1, max0),
         step |-> IF step0 > 0 THEN step0 ELSE DefaultStep,
         initial |-> toNumber(rawInitial, DefaultInitial)]

\* normalizeAmount without the clamp
normalizeAmount_SnapOnly(cfg, value) == snapToStep(value, cfg.min, cfg.step)

\* normalizeAmount
normalizeAmount(cfg, value) == clamp(snapToStep(value, cfg.min, cfg.step), cfg.min, cfg.max)

IsUpperChar(c) == \E i \in 1..Len(upperChars) : upperChars[i] = c

\* String.prototype.toUpperCase, on the alphabet of the model
toUpperCase(s) == [i \in 1..Len(s) |-> ToUpperChar(s[i])]

\* PAN_REGEX.test: /^[A-Z]{5}[0-9]{4}[A-Z]$/
PAN_REGEX(s) ==
    /\ Len(s) = 10
    /\ \A i \in 1..5 : IsUpperChar(s[i])
    /\ \A i \in 6..9 : s[i] \in digitChars
    /\ IsUpperChar(s[10])

\* the state object
LoanSliderState == [amount |-> amount, pan |-> pan, panTouched |-> panTouched, showResult |-> showResult]

\* template: the elements it renders that update() looks up
template(s) ==
    IF s.showResult THEN {}
    ELSE {"number", "range", "cta"} \cup (IF s.amount > PAN_THRESHOLD THEN {"pan"} ELSE {})

\* the listener of the amount and of the range input
amountListener(cfg, s, value) ==
    IF ~value.finite THEN s ELSE [s EXCEPT !.amount = normalizeAmount(cfg, value.n)]

\* the input listener of the PAN input
panListener(s, text) == [s EXCEPT !.pan = toUpperCase(text)]

\* a click listener that shows the result whatever the PAN
ctaClick_SkipPan(s) == [s EXCEPT !.showResult = TRUE]

\* the click listener of the CTA button
ctaClick(s) ==
    LET panRequired == s.amount > PAN_THRESHOLD
        panValid == PAN_REGEX(s.pan)
    IN  IF panRequired /\ ~panValid
        THEN [s EXCEPT !.panTouched = TRUE]
        ELSE [s EXCEPT !.showResult = TRUE]

\* the config texts of the block, as Number() reads them
RawMins == {NotFinite, Num(0), Num(60000)}
RawMaxs == {NotFinite, Num(50500), Num(40000)}
RawSteps == {NotFinite, Num(0), Num(1500)}
RawInitials == {NotFinite, Num(75000), Num(-1)}

\* the values typed into the number input or set with the range input
AmountInputs == {-20000, 0, 10499, 10500, 50000, 50001, 50500, 50750, 75000, 1000000}

sPanUpper == <<"A", "B", "C", "D", "E", "1", "2", "3", "4", "F">>
sPanLower == <<"a", "b", "c", "d", "e", "1", "2", "3", "4", "f">>
sPanShort == <<"A", "B", "C", "D", "E", "1", "2", "3", "4">>
sPanDigits == <<"A", "B", "C", "D", "1", "2", "3", "4", "5", "F">>

\* the texts typed into the PAN input (maxlength 10)
PanTexts == {E, sPanUpper, sPanLower, sPanShort, sPanDigits}

SetSlider(s, event) ==
    /\ amount' = s.amount
    /\ pan' = s.pan
    /\ panTouched' = s.panTouched
    /\ showResult' = s.showResult
    /\ sliderEvent' = event
    /\ UNCHANGED <<config, formVars, otpVars>>

\* the block is decorated: config read, state set, first update()
InitSlider ==
    /\ FormBuilt(<<>>, E)
    /\ OtpIdle
    /\ \E rawMin \in RawMins, rawMax \in RawMaxs, rawStep \in RawSteps, rawInitial \in RawInitials :
          /\ config = LoanSliderConfig(rawMin, rawMax, rawStep, rawInitial)
          /\ amount = normalizeAmount(config, config.initial)
    /\ pan = E
    /\ panTouched = FALSE
    /\ showResult = FALSE
    /\ sliderEvent = "none"

\* an input event on the number input.  update() registers its listeners again on the
\* elements the re-render keeps, so an event runs the copies registered so far; a later
\* copy reads the value the re-render of the one before wrote back, when it wrote one
AmountInput ==
    \E v \in AmountInputs, copies \in {1, 2} :
        LET first == amountListener(config, LoanSliderState, Num(v))
        IN  /\ "number" \in template(LoanSliderState)
            /\ SetSlider(IF copies = 1 THEN first
                         ELSE amountListener(config, first, Num(first.amount)), "number")

\* an input event on the range input, whose value the browser keeps within min and max
RangeInput ==
    \E v \in AmountInputs, copies \in {1, 2} :
        LET first == amountListener(config, LoanSliderState, Num(v))
        IN  /\ "range" \in template(LoanSliderState)
            /\ config.min <= v /\ v <= config.max
            /\ SetSlider(IF copies = 1 THEN first
                         ELSE amountListener(config, first, Num(first.amount)), "range")

\* an input event on the PAN input
PanInput ==
    \E text \in PanTexts :
        /\ "pan" \in template(LoanSliderState)
        /\ SetSlider(panListener(LoanSliderState, text), "pan")

\* a blur event on the PAN input
PanBlur ==
    /\ "pan" \in template(LoanSliderState)
    /\ SetSlider([LoanSliderState EXCEPT !.panTouched = TRUE], "blur")

\* a click event on the CTA button
CtaClick ==
    /\ "cta" \in template(LoanSliderState)
    /\ SetSlider(ctaClick(LoanSliderState), "click")

NextSlider ==
    \/ AmountInput
    \/ RangeInput
    \/ PanInput
    \/ PanBlur
    \/ CtaClick

SpecSlider == InitSlider /\ [][NextSlider]_vars

\* C29: the result is shown only by a CTA click made with an amount of at most 50000 or
\* a PAN of the format AAAAA9999A; a CTA click with an amount above 50000 and an invalid
\* PAN leaves showResult false and sets panTouched; once the result is shown the amount
\* and the PAN never change; the amount is always within min and max
C29_ResultGatedByPan ==
    /\ [](config.min <= amount /\ amount <= config.max)
    /\ [][(showResult' /\ ~showResult) =>
            /\ sliderEvent' = "click"
            /\ amount <= PAN_THRESHOLD \/ PAN_REGEX(pan)]_vars
    /\ [][(sliderEvent' = "click" /\ ~showResult /\ amount > PAN_THRESHOLD /\ ~PAN_REGEX(pan)) =>
            ~showResult' /\ panTouched']_vars
    /\ [][showResult => (showResult' /\ amount' = amount /\ pan' = pan)]_vars

\* C29's case: above the threshold, with the PAN input touched and a valid PAN typed,
\* a click showed the result
C29_Witness_ResultAfterValidPan ==
    /\ showResult
    /\ sliderEvent = "click"
    /\ amount > PAN_THRESHOLD
    /\ PAN_REGEX(pan)
    /\ panTouched

====
